---- MODULE Spec2Model ----
(***************************************************************************)
(* github-stats-rs: the Search Request (src/src/search.rs), its            *)
(* pagination arithmetic, its URL rendering and its search() call, and     *)
(* the Query builder it captures a rendered string from.                   *)
(*                                                                         *)
(* Strings are sequences of one-character strings, so that joining,        *)
(* decimal formatting and URL layout are computed character by character.  *)
(***************************************************************************)
EXTENDS Integers, Sequences, FiniteSets, TLC

\* ------------------------------------------------------------- bounds

\* Width in bits of the modelled usize (the build's is 64).
UsizeBits == 4

\* Most qualifier tokens a Query accumulates.
MaxTokens == 3

\* Most renderings of a Query recorded between two builder calls.
MaxRenders == 2

\* Most search() calls in one behaviour.
MaxSearches == 2

\* ---------------------------------------------------- program constants

usize_MIN == 0

DEFAULT_PER_PAGE == 10

DEFAULT_PAGE == 1

usize_MAX == 2 ^ UsizeBits - 1

\* ------------------------------------------------------------ strings

URL_BASE == <<"h", "t", "t", "p", "s", ":", "/", "/", "a", "p", "i", ".", "g", "i", "t", "h", "u", "b", ".", "c", "o", "m", "/", "s", "e", "a", "r", "c", "h", "/">>

PER_PAGE_KEY == <<"?", "p", "e", "r", "_", "p", "a", "g", "e", "=">>

PAGE_KEY == <<"&", "p", "a", "g", "e", "=">>

Q_KEY == <<"&", "q", "=">>

REPO_PREFIX == <<"r", "e", "p", "o", ":">>

IS_PREFIX == <<"i", "s", ":">>

ISSUES == <<"i", "s", "s", "u", "e", "s">>

USERS == <<"u", "s", "e", "r", "s">>

RUST_LANG == <<"r", "u", "s", "t", "-", "l", "a", "n", "g">>

RUST == <<"r", "u", "s", "t">>

PR == <<"p", "r">>

MERGED == <<"m", "e", "r", "g", "e", "d">>

DIGITS == <<"0", "1", "2", "3", "4", "5", "6", "7", "8", "9">>

\* ------------------------------------------------------- Query builder

\* Query::new(): no qualifier yet.
Query_new == <<>>

\* repo(owner, name) appends the token repo:owner/name.
repo(q, owner, name) == Append(q, REPO_PREFIX \o owner \o <<"/">> \o name)

\* is(value) appends the token is:value.
is(q, value) == Append(q, IS_PREFIX \o value)

RECURSIVE JoinTokens(_)
\* The tokens in order, one space between neighbours.
JoinTokens(tokens) ==
    IF tokens = <<>> THEN <<>>
    ELSE IF Len(tokens) = 1 THEN tokens[1]
    ELSE tokens[1] \o <<" ">> \o JoinTokens(Tail(tokens))

RECURSIVE JoinTrailing(_)
\* A rendering that ends every token with a space.
JoinTrailing(tokens) ==
    IF tokens = <<>> THEN <<>>
    ELSE tokens[1] \o <<" ">> \o JoinTrailing(Tail(tokens))

\* Query's rendering, with a space left after the last token.
Query_to_string_trailing(q) == JoinTrailing(q)

\* Query's rendering (its Display / to_string).
Query_to_string(q) == JoinTokens(q)

\* ------------------------------------------------------ Search Request

\* Search::new
new(area, query) ==
    [search_area |-> area,
     query       |-> Query_to_string(query),
     per_page    |-> DEFAULT_PER_PAGE,
     page        |-> DEFAULT_PAGE]

\* get_query returning the other string field.
get_query_area(self) == self.search_area

\* Search::get_query
get_query(self) == self.query

\* Search::per_page
per_page(self, n) == [self EXCEPT !.per_page = n]

\* Search::page
page(self, n) == [self EXCEPT !.page = n]

\* next_page without its guard: the increment wraps at the top.
next_page_wrapping(self) ==
    [self EXCEPT !.page = (self.page + 1) % (2 ^ UsizeBits)]

\* Search::next_page; += on usize is taken modulo 2^UsizeBits.
next_page(self) ==
    IF self.page < usize_MAX
    THEN [self EXCEPT !.page = (self.page + 1) % (2 ^ UsizeBits)]
    ELSE self

\* prev_page without its guard: the decrement wraps at the bottom.
prev_page_wrapping(self) ==
    [self EXCEPT !.page = (self.page - 1) % (2 ^ UsizeBits)]

\* prev_page stopping at page 1, the first page of the 1-indexed convention.
prev_page_floor_one(self) ==
    IF self.page > 1
    THEN [self EXCEPT !.page = (self.page - 1) % (2 ^ UsizeBits)]
    ELSE self

\* Search::prev_page; -= on usize is taken modulo 2^UsizeBits.
prev_page(self) ==
    IF self.page > usize_MIN
    THEN [self EXCEPT !.page = (self.page - 1) % (2 ^ UsizeBits)]
    ELSE self

RECURSIVE Decimal(_)
\* Display of a usize: its decimal digits, most significant first.
Decimal(n) ==
    IF n < 10 THEN <<DIGITS[n + 1]>>
    ELSE Decimal(n \div 10) \o <<DIGITS[(n % 10) + 1]>>

\* Display with the two numeric arguments in the other order.
fmt_swapped(self) ==
    URL_BASE \o self.search_area
        \o PER_PAGE_KEY \o Decimal(self.page)
        \o PAGE_KEY \o Decimal(self.per_page)
        \o Q_KEY \o self.query

\* impl fmt::Display for Search (and the to_string() search() calls).
fmt(self) ==
    URL_BASE \o self.search_area
        \o PER_PAGE_KEY \o Decimal(self.per_page)
        \o PAGE_KEY \o Decimal(self.page)
        \o Q_KEY \o self.query

\* Result<T>
Ok(v) == [tag |-> "Ok", value |-> v]

Err(e) == [tag |-> "Err", error |-> e]

\* reqwest::get(url)?: the transport either completes with a response
\* body or fails; t is what the network does on this call.
reqwest_get(url, t) ==
    IF t.completes THEN Ok(t.body) ELSE Err("transport")

\* A decode that fills a missing total_count with 0 and missing items with
\* none (as #[serde(default)] would).
json_lenient(body) ==
    IF ~body.valid_json THEN Err("decode")
    ELSE Ok([total_count |-> IF "total_count" \in DOMAIN body.object
                             THEN body.object.total_count ELSE 0,
             items       |-> IF "items" \in DOMAIN body.object
                             THEN body.object.items ELSE <<>>])

\* Response::json::<SearchResults>()?: the derived Deserialize wants a JSON
\* object with a u64 total_count and an items array; other fields are
\* ignored.
json(body) ==
    IF ~body.valid_json THEN Err("decode")
    ELSE IF /\ "total_count" \in DOMAIN body.object
            /\ "items" \in DOMAIN body.object
            /\ body.object.total_count \in Nat
         THEN Ok([total_count |-> body.object.total_count,
                  items       |-> body.object.items])
         ELSE Err("decode")

\* A search that tries the GET once more when the first attempt fails.
search_retrying(self, t) ==
    LET url  == fmt(self)
        resp == reqwest_get(url, t)
    IN  [self     |-> self,
         requests |-> IF resp.tag = "Err" THEN <<url, url>> ELSE <<url>>,
         result   |-> IF resp.tag = "Err" THEN resp ELSE json(resp.value)]

\* A search that moves to the next page once a page has been fetched.
search_advancing(self, t) ==
    LET url  == fmt(self)
        resp == reqwest_get(url, t)
        res  == IF resp.tag = "Err" THEN resp ELSE json(resp.value)
    IN  [self     |-> IF res.tag = "Ok" THEN next_page(self) ELSE self,
         requests |-> <<url>>,
         result   |-> res]

\* Search::search(&self): one GET of the rendered URL, then the decode; each
\* ? returns the error at once.  requests lists the URLs handed to the
\* transport during the call, self is the receiver after the call.
search(self, t) ==
    LET url  == fmt(self)
        resp == reqwest_get(url, t)
    IN  [self     |-> self,
         requests |-> <<url>>,
         result   |-> IF resp.tag = "Err" THEN resp ELSE json(resp.value)]

\* SearchResults::total_count
total_count(results) == results.total_count

\* SearchResults::items
items(results) == results.items

\* -------------------------------------------------------------- inputs

\* Values of area handed to Search::new.
Areas == {ISSUES, USERS}

\* Arguments of the builder calls.
Owners == {RUST_LANG}

RepoNames == {RUST}

IsValues == {PR, MERGED}

\* Queries handed to Search::new: the empty one, one token, the doc example.
QueryInputs ==
    {Query_new,
     is(Query_new, PR),
     is(is(repo(Query_new, RUST_LANG, RUST), PR), MERGED)}

\* Arguments of per_page(n) and page(n): the ends of usize and 1.
SetterInputs == {usize_MIN, 1, usize_MAX}

\* Response bodies the transport can deliver.
B_GOOD == [valid_json |-> TRUE,
           object |-> [total_count |-> 42, items |-> <<[id |-> 1], [id |-> 2]>>]]

B_EXTRA == [valid_json |-> TRUE,
            object |-> [total_count |-> 0, incomplete_results |-> FALSE, items |-> <<>>]]

B_MESSAGE == [valid_json |-> TRUE, object |-> [message |-> "API rate limit exceeded"]]

B_NO_ITEMS == [valid_json |-> TRUE, object |-> [total_count |-> 42]]

B_NO_TOTAL == [valid_json |-> TRUE, object |-> [items |-> <<[id |-> 1]>>]]

B_NEGATIVE == [valid_json |-> TRUE, object |-> [total_count |-> -1, items |-> <<>>]]

B_NOT_JSON == [valid_json |-> FALSE, text |-> "<html>"]

Bodies == {B_GOOD, B_EXTRA, B_MESSAGE, B_NO_ITEMS, B_NO_TOTAL, B_NEGATIVE, B_NOT_JSON}

\* What the network does on one GET.
Transport ==
    {[completes |-> FALSE]} \cup {[completes |-> TRUE, body |-> b] : b \in Bodies}

\* --------------------------------------------------------------- state

VARIABLES
    the_query,   \* the caller's Query: its qualifier tokens
    renders,     \* what the Query rendered to since its last builder call
    pc,          \* "query": no Search yet; "search": the caller holds one
    the_search,  \* the Search: search_area, query, per_page, page
    ctor,        \* the arguments Search::new was called with
    op,          \* the last operation on the Search
    before,      \* the Search as it was before op
    op2,         \* the operation before op (kept by SpecPage only)
    before2,     \* the Search as it was before op2
    got,         \* what the last get_query() returned
    net,         \* what the transport did during the last search()
    sent,        \* the URLs the last search() handed to the transport
    result,      \* what the last search() returned
    calls,       \* search() calls so far
    gets         \* GET requests handed to the transport so far

vars == <<the_query, renders, pc, the_search, ctor, op, before, op2, before2,
          got, net, sent, result, calls, gets>>

\* Values of the variables that hold nothing yet.
NoSearch == [search_area |-> <<>>, query |-> <<>>, per_page |-> 0, page |-> 0]

NoCtor == [area |-> <<>>, query |-> <<>>]

NoNet == [idle |-> TRUE]

NoResult == [tag |-> "None"]

\* The outputs of the last call are those of that call only.
NoOutput == got' = <<>> /\ net' = NoNet /\ sent' = <<>> /\ result' = NoResult

\* The trail of the last two operations: kept, or not tracked.
Shift == op2' = op /\ before2' = before

Keep == UNCHANGED <<op2, before2>>

\* ------------------------------------------------------ initial states

\* The caller has made Query::new() and no Search.
InitQuery ==
    /\ the_query = Query_new
    /\ renders = <<>>
    /\ pc = "query"
    /\ the_search = NoSearch
    /\ ctor = NoCtor
    /\ op = "none" /\ before = NoSearch
    /\ op2 = "none" /\ before2 = NoSearch
    /\ got = <<>> /\ net = NoNet /\ sent = <<>> /\ result = NoResult
    /\ calls = 0 /\ gets = 0

\* The caller has made Search::new(area, &query).
Init ==
    \E area \in Areas, q \in QueryInputs :
        /\ the_query = q
        /\ renders = <<>>
        /\ pc = "search"
        /\ the_search = new(area, q)
        /\ ctor = [area |-> area, query |-> q]
        /\ op = "new" /\ before = NoSearch
        /\ op2 = "none" /\ before2 = NoSearch
        /\ got = <<>> /\ net = NoNet /\ sent = <<>> /\ result = NoResult
        /\ calls = 0 /\ gets = 0

\* ------------------------------------------------- Query builder steps

\* query = query.repo(owner, name)
QRepo(owner, name) ==
    /\ Len(the_query) < MaxTokens
    /\ the_query' = repo(the_query, owner, name)
    /\ renders' = <<>>
    /\ UNCHANGED <<pc, the_search, ctor, op, before, op2, before2,
                   got, net, sent, result, calls, gets>>

\* query = query.is(value)
QIs(value) ==
    /\ Len(the_query) < MaxTokens
    /\ the_query' = is(the_query, value)
    /\ renders' = <<>>
    /\ UNCHANGED <<pc, the_search, ctor, op, before, op2, before2,
                   got, net, sent, result, calls, gets>>

\* query.to_string()
QRender ==
    /\ Len(renders) < MaxRenders
    /\ renders' = Append(renders, Query_to_string(the_query))
    /\ UNCHANGED <<the_query, pc, the_search, ctor, op, before, op2, before2,
                   got, net, sent, result, calls, gets>>

\* Search::new(area, &query): the Query stays with the caller.
QNew(area) ==
    /\ pc = "query"
    /\ pc' = "search"
    /\ the_search' = new(area, the_query)
    /\ ctor' = [area |-> area, query |-> the_query]
    /\ op' = "new" /\ before' = the_search
    /\ NoOutput
    /\ UNCHANGED <<the_query, renders, op2, before2, calls, gets>>

\* ------------------------------------------------------- Search steps

\* A call that replaces the Search by s and returns nothing.
Update(name, s) ==
    /\ pc = "search"
    /\ the_search' = s
    /\ op' = name /\ before' = the_search
    /\ NoOutput
    /\ UNCHANGED <<the_query, renders, pc, ctor, calls, gets>>

PerPageStep(n) == Update("per_page", per_page(the_search, n))

PageStep(n) == Update("page", page(the_search, n))

NextPageStep == Update("next_page", next_page(the_search))

PrevPageStep == Update("prev_page", prev_page(the_search))

\* search.get_query()
GetQueryStep ==
    /\ pc = "search"
    /\ got' = get_query(the_search)
    /\ op' = "get_query" /\ before' = the_search
    /\ net' = NoNet /\ sent' = <<>> /\ result' = NoResult
    /\ UNCHANGED <<the_query, renders, pc, the_search, ctor, calls, gets>>

\* search.search(), the network doing t.
SearchStep(t) ==
    /\ pc = "search"
    /\ calls < MaxSearches
    /\ LET r == search(the_search, t)
       IN  /\ the_search' = r.self
           /\ sent' = r.requests
           /\ result' = r.result
           /\ gets' = gets + Len(r.requests)
    /\ calls' = calls + 1
    /\ net' = t
    /\ op' = "search" /\ before' = the_search
    /\ got' = <<>>
    /\ UNCHANGED <<the_query, renders, pc, ctor>>

\* ------------------------------------------------------ specifications

DoPerPage(n) == PerPageStep(n) /\ Keep

DoPage(n) == PageStep(n) /\ Keep

DoNextPage == NextPageStep /\ Keep

DoPrevPage == PrevPageStep /\ Keep

DoGetQuery == GetQueryStep /\ Keep

DoSearch(t) == SearchStep(t) /\ Keep

\* A Search in use: configured, paged, read and run in any order.
Next ==
    \/ \E n \in SetterInputs : DoPerPage(n)
    \/ \E n \in SetterInputs : DoPage(n)
    \/ DoNextPage
    \/ DoPrevPage
    \/ DoGetQuery
    \/ \E t \in Transport : DoSearch(t)

Spec == Init /\ [][Next]_vars

TrailPerPage(n) == PerPageStep(n) /\ Shift

TrailPage(n) == PageStep(n) /\ Shift

TrailNextPage == NextPageStep /\ Shift

TrailPrevPage == PrevPageStep /\ Shift

\* Pagination alone, the last two operations remembered.
NextPaging ==
    \/ \E n \in SetterInputs : TrailPerPage(n)
    \/ \E n \in SetterInputs : TrailPage(n)
    \/ TrailNextPage
    \/ TrailPrevPage

SpecPage == Init /\ [][NextPaging]_vars

\* The Query being built and rendered, a Search capturing it at some point.
NextQuery ==
    \/ \E owner \in Owners, name \in RepoNames : QRepo(owner, name)
    \/ \E value \in IsValues : QIs(value)
    \/ QRender
    \/ \E area \in Areas : QNew(area)
    \/ DoGetQuery

SpecQuery == InitQuery /\ [][NextQuery]_vars

\* ------------------------------------------- reading strings back

\* s begins with p.
HasPrefix(s, p) == Len(s) >= Len(p) /\ SubSeq(s, 1, Len(p)) = p

\* s without its first k characters.
Drop(s, k) == SubSeq(s, k + 1, Len(s))

IsDigit(c) == \E i \in 1..10 : DIGITS[i] = c

DigitValue(c) == (CHOOSE i \in 1..10 : DIGITS[i] = c) - 1

RECURSIVE DigitRun(_)
\* The longest run of digits s begins with.
DigitRun(s) ==
    IF s = <<>> \/ ~IsDigit(Head(s)) THEN <<>>
    ELSE <<Head(s)>> \o DigitRun(Tail(s))

RECURSIVE NumeralValue(_)
\* The number a run of digits denotes.
NumeralValue(d) ==
    IF d = <<>> THEN 0
    ELSE 10 * NumeralValue(SubSeq(d, 1, Len(d) - 1)) + DigitValue(d[Len(d)])

\* A numeral as Display writes one: some digits, no leading zero.
Canonical(d) == d # <<>> /\ (Len(d) > 1 => d[1] # "0")

RECURSIVE AfterKey(_, _)
\* What follows the first occurrence of key in s (nothing when there is none).
AfterKey(s, key) ==
    IF Len(s) < Len(key) THEN <<>>
    ELSE IF HasPrefix(s, key) THEN Drop(s, Len(key))
    ELSE AfterKey(Tail(s), key)

\* The number a URL carries under a key.
UrlNumber(url, key) == NumeralValue(DigitRun(AfterKey(url, key)))

\* url reads, left to right, as the search URL of the fields of s.
UrlReadsAs(url, s) ==
    LET head == URL_BASE \o s.search_area
        r1   == Drop(url, Len(head))
        r2   == Drop(r1, Len(PER_PAGE_KEY))
        d1   == DigitRun(r2)
        r3   == Drop(r2, Len(d1))
        r4   == Drop(r3, Len(PAGE_KEY))
        d2   == DigitRun(r4)
        r5   == Drop(r4, Len(d2))
    IN  /\ HasPrefix(url, head)
        /\ HasPrefix(r1, PER_PAGE_KEY)
        /\ Canonical(d1) /\ NumeralValue(d1) = s.per_page
        /\ HasPrefix(r3, PAGE_KEY)
        /\ Canonical(d2) /\ NumeralValue(d2) = s.page
        /\ HasPrefix(r5, Q_KEY)
        /\ Drop(r5, Len(Q_KEY)) = s.query

RECURSIVE FirstField(_)
\* s up to its first space.
FirstField(s) ==
    IF s = <<>> \/ Head(s) = " " THEN <<>>
    ELSE <<Head(s)>> \o FirstField(Tail(s))

RECURSIVE SplitFields(_)
\* The fields of s between single spaces; a space at either end or two in a
\* row give an empty field.
SplitFields(s) ==
    LET f == FirstField(s)
    IN  IF Len(f) = Len(s) THEN <<f>>
        ELSE <<f>> \o SplitFields(Drop(s, Len(f) + 1))

\* The tokens of a rendered query; the empty string has none.
SplitOnSpace(s) == IF s = <<>> THEN <<>> ELSE SplitFields(s)

\* The body has the shape of a search response.
WellShaped(body) ==
    /\ body.valid_json
    /\ {"total_count", "items"} \subseteq DOMAIN body.object
    /\ body.object.total_count >= 0

EXAMPLE_QUERY == is(is(repo(Query_new, RUST_LANG, RUST), PR), MERGED)

EXAMPLE_RENDERED == <<"r", "e", "p", "o", ":", "r", "u", "s", "t", "-", "l", "a", "n", "g", "/", "r", "u", "s", "t", " ", "i", "s", ":", "p", "r", " ", "i", "s", ":", "m", "e", "r", "g", "e", "d">>

ISSUES_DEFAULT_URL == <<"h", "t", "t", "p", "s", ":", "/", "/", "a", "p", "i", ".", "g", "i", "t", "h", "u", "b", ".", "c", "o", "m", "/", "s", "e", "a", "r", "c", "h", "/", "i", "s", "s", "u", "e", "s", "?", "p", "e", "r", "_", "p", "a", "g", "e", "=", "1", "0", "&", "p", "a", "g", "e", "=", "1", "&", "q", "=">>

\* -------------------------------------------------------------- claims

\* C1: every URL search() hands to the transport carries per_page >= 1 and
\* page >= 1, whatever per_page(n), page(n), next_page() and prev_page()
\* calls came before.
C1_PageAndPerPageAtLeastOne ==
    op = "search" =>
        \A i \in DOMAIN sent :
            /\ UrlNumber(sent[i], PER_PAGE_KEY) >= 1
            /\ UrlNumber(sent[i], PAGE_KEY) >= 1
            /\ before.per_page >= 1
            /\ before.page >= 1

\* C2: next_page() adds 1 to page below usize::MAX (1 becomes 2), leaves page
\* at usize::MAX alone, touches nothing else, and so never decreases page,
\* also over two next_page() calls in a row.
C2_NextPageSaturates ==
    op = "next_page" =>
        /\ before.page < usize_MAX => the_search.page = before.page + 1
        /\ before.page = 1 => the_search.page = 2
        /\ before.page = usize_MAX => the_search.page = usize_MAX
        /\ the_search.page >= before.page
        /\ op2 = "next_page" => before.page >= before2.page

C2_Witness ==
    /\ op = "next_page" /\ op2 = "next_page"
    /\ before2.page = usize_MAX - 1
    /\ before.page = usize_MAX
    /\ the_search.page = usize_MAX

\* C3: prev_page() takes 1 from page above 0 (1 becomes 0), leaves page 0
\* alone, and so never increases page, also over two prev_page() calls in a
\* row.
C3_PrevPageSaturatesAtZero ==
    op = "prev_page" =>
        /\ before.page > usize_MIN => the_search.page = before.page - 1
        /\ before.page = 1 => the_search.page = 0
        /\ before.page = usize_MIN => the_search.page = usize_MIN
        /\ the_search.page <= before.page
        /\ op2 = "prev_page" => before.page <= before2.page

C3_Witness ==
    /\ op = "prev_page" /\ op2 = "prev_page"
    /\ before2.page = 1
    /\ before.page = 0
    /\ the_search.page = 0

\* C4: the URL a Search renders, and the one search() hands to the transport,
\* is the base, the area, ?per_page= and the decimal per_page, &page= and the
\* decimal page, &q= and the query as it is; a Search just made for "issues"
\* renders per_page=10&page=1.
C4_UrlFormat ==
    pc = "search" =>
        /\ UrlReadsAs(fmt(the_search), the_search)
        /\ op = "search" => sent # <<>> /\ \A i \in DOMAIN sent : UrlReadsAs(sent[i], before)
        /\ (op = "new" /\ ctor.area = ISSUES) =>
               fmt(the_search) = ISSUES_DEFAULT_URL \o the_search.query

C4_Witness ==
    /\ op = "search"
    /\ before.per_page = usize_MAX
    /\ before.page = 2
    /\ before.query = EXAMPLE_RENDERED
    /\ Len(sent) = 1
    /\ UrlReadsAs(sent[1], before)

\* C5: query and search_area stay what Search::new made them through every
\* later call, and get_query() returns that query.
C5_QueryAndAreaFixed ==
    pc = "search" =>
        /\ the_search.query = Query_to_string(ctor.query)
        /\ the_search.search_area = ctor.area
        /\ op # "new" => /\ the_search.query = before.query
                         /\ the_search.search_area = before.search_area
        /\ op = "get_query" => got = Query_to_string(ctor.query)

C5_Witness ==
    /\ op = "get_query"
    /\ got = EXAMPLE_RENDERED
    /\ ctor.query = EXAMPLE_QUERY
    /\ the_search.page # DEFAULT_PAGE
    /\ the_search.per_page # DEFAULT_PER_PAGE
    /\ calls > 0

\* C6: search() returns the whole Result Set of a well-shaped body, a
\* transport error when the GET does not complete, a decode error for any
\* other body, and nothing in between.
C6_SearchOutcomes ==
    op = "search" =>
        /\ result.tag \in {"Ok", "Err"}
        /\ ~net.completes => result = Err("transport")
        /\ (net.completes /\ ~WellShaped(net.body)) => result = Err("decode")
        /\ (net.completes /\ WellShaped(net.body)) =>
               /\ result.tag = "Ok"
               /\ DOMAIN result.value = {"total_count", "items"}
               /\ total_count(result.value) = net.body.object.total_count
               /\ items(result.value) = net.body.object.items
        /\ (net.completes /\ net.body = B_GOOD) =>
               /\ total_count(result.value) = 42
               /\ Len(items(result.value)) = 2
        /\ result.tag = "Err" => DOMAIN result = {"tag", "error"}

C6_Witness ==
    /\ op = "search"
    /\ net.completes
    /\ net.body = B_NO_TOTAL
    /\ result = Err("decode")

\* C7: the GETs handed to the transport are as many as the search() calls,
\* one per call, failed or not, repeated or not.
C7_OneGetPerSearch ==
    /\ gets = calls
    /\ op = "search" => Len(sent) = 1

C7_Witness ==
    /\ op = "search"
    /\ calls = 2
    /\ gets = 2
    /\ result = Err("transport")

C9_SearchLeavesRequestUnchanged ==
    op = "search" =>
        /\ the_search = before
        /\ sent = <<fmt(the_search)>>
        /\ ENABLED DoNextPage
        /\ ENABLED DoPrevPage
        /\ \A n \in SetterInputs : ENABLED DoPage(n) /\ ENABLED DoPerPage(n)

C9_Witness ==
    /\ op = "search"
    /\ result.tag = "Ok"
    /\ the_search = before
    /\ the_search.page = 2
    /\ calls = 2

\* C10: next_page() then prev_page() restores page below usize::MAX and gives
\* usize::MAX - 1 from usize::MAX; prev_page() then next_page() restores page
\* above 0 and gives 1 from 0; both leave per_page, query and search_area.
C10_NextPrevRoundTrip ==
    /\ (op2 = "next_page" /\ op = "prev_page") =>
           /\ before2.page < usize_MAX => the_search.page = before2.page
           /\ before2.page = usize_MAX => the_search.page = usize_MAX - 1
           /\ the_search = [before2 EXCEPT !.page = the_search.page]
    /\ (op2 = "prev_page" /\ op = "next_page") =>
           /\ before2.page > usize_MIN => the_search.page = before2.page
           /\ before2.page = usize_MIN => the_search.page = 1
           /\ the_search = [before2 EXCEPT !.page = the_search.page]

C10_Witness ==
    /\ op2 = "prev_page" /\ op = "next_page"
    /\ before2.page = usize_MIN
    /\ the_search.page = 1
    /\ the_search.per_page = usize_MAX

====
